---- MODULE Spec2Model ----
(***************************************************************************)
(* A model of the Mixxx mapping engine of djcontroller.js                  *)
(* (src/src/mapping/mixxx.ts): parsing an XML mapping into a MidiMapping,  *)
(* deckFromGroup, fromMidi and toMidi.                                     *)
(*                                                                         *)
(* Strings whose characters the code inspects (regular expression match,   *)
(* parseInt, comparison with 'play') are sequences of one-character        *)
(* strings.  A JavaScript number is a record [nan, val]; null/undefined is *)
(* the empty sequence and a present value v is <<v>>.                      *)
(***************************************************************************)
EXTENDS Integers, Sequences, FiniteSets, TLC

VARIABLES
    xmlMapping,     \* the XmlDocument parseXml(xmlMappingSrc) gives parse, an input
    jsMappingSrc,   \* the optional script source handed to parse: <<>> or <<src>>
    parsed,         \* "pending", "returned" or "TypeError": how parse ended
    mapping,        \* <<>> or <<the MixxxControllerMapping parse returned>>
    op,             \* the last call on the mapping: "none", "fromMidi", "toMidi"
    msg,            \* the message of the latest fromMidi call
    output,         \* the output state of the latest toMidi call
    outcome,        \* "none", "returned" or "TypeError": how the last call ended
    result,         \* what the last call returned (a sequence)
    group,          \* the argument of a direct deckFromGroup call
    deck            \* [done, value]: whether deckFromGroup(group) ran, and what it returned

vars == <<xmlMapping, jsMappingSrc, parsed, mapping, op, msg, output,
          outcome, result, group, deck>>

(***************************************************************************)
(* Bounds of the model.                                                    *)
(***************************************************************************)
MaxControls == 2   \* child nodes of <controls>
MaxOutputs == 1    \* child nodes of <outputs>
MaxAffix == 1      \* characters put before and after a group string
MaxDigits == 2     \* digits after 'Channel' in a group string

(***************************************************************************)
(* Values.                                                                 *)
(***************************************************************************)
Null == <<>>
Some(v) == <<v>>

NaN == [nan |-> TRUE, val |-> 0]
Num(n) == [nan |-> FALSE, val |-> n]

Range(s) == {s[i] : i \in 1..Len(s)}

RECURSIVE SeqsUpTo(_, _)
SeqsUpTo(S, n) ==
    IF n = 0 THEN {<<>>}
    ELSE LET shorter == SeqsUpTo(S, n - 1)
         IN  shorter \cup {Append(s, x) : s \in shorter, x \in S}

(***************************************************************************)
(* parseInt(string), as ECMAScript defines it for a call without radix:    *)
(* leading white space is skipped, a sign is read, a 0x/0X prefix selects  *)
(* radix 16, the longest prefix of digits of the radix is the number, and  *)
(* no digit at all gives NaN.                                              *)
(***************************************************************************)
WhiteSpace == {" ", "\t", "\n", "\r"}

DecDigits == {"0", "1", "2", "3", "4", "5", "6", "7", "8", "9"}

HexDigits == DecDigits \cup {"a", "b", "c", "d", "e", "f", "A", "B", "C", "D", "E", "F"}

DigitVal(c) ==
    CASE c = "0" -> 0 [] c = "1" -> 1 [] c = "2" -> 2 [] c = "3" -> 3
      [] c = "4" -> 4 [] c = "5" -> 5 [] c = "6" -> 6 [] c = "7" -> 7
      [] c = "8" -> 8 [] c = "9" -> 9
      [] c \in {"a", "A"} -> 10 [] c \in {"b", "B"} -> 11
      [] c \in {"c", "C"} -> 12 [] c \in {"d", "D"} -> 13
      [] c \in {"e", "E"} -> 14 [] c \in {"f", "F"} -> 15

RECURSIVE SkipWhile(_, _)
SkipWhile(s, S) ==
    IF s # <<>> /\ Head(s) \in S THEN SkipWhile(Tail(s), S) ELSE s

RECURSIVE TakeWhile(_, _)
TakeWhile(s, S) ==
    IF s # <<>> /\ Head(s) \in S THEN <<Head(s)>> \o TakeWhile(Tail(s), S) ELSE <<>>

RECURSIVE DigitsValue(_, _, _)
DigitsValue(ds, radix, acc) ==
    IF ds = <<>> THEN acc
    ELSE DigitsValue(Tail(ds), radix, acc * radix + DigitVal(Head(ds)))

parseInt(string) ==
    LET s1 == SkipWhile(string, WhiteSpace)
        neg == s1 # <<>> /\ Head(s1) = "-"
        s2 == IF s1 # <<>> /\ Head(s1) \in {"+", "-"} THEN Tail(s1) ELSE s1
        hex == Len(s2) >= 2 /\ s2[1] = "0" /\ s2[2] \in {"x", "X"}
        s3 == IF hex THEN Tail(Tail(s2)) ELSE s2
        ds == TakeWhile(s3, IF hex THEN HexDigits ELSE DecDigits)
    IN  IF ds = <<>> THEN NaN
        ELSE Num((IF neg THEN -1 ELSE 1) * DigitsValue(ds, IF hex THEN 16 ELSE 10, 0))

(***************************************************************************)
(* deckFromGroup: /\[Channel(\d+)\]/.exec(group), then parseInt of the     *)
(* captured digits.  The expression is not anchored: exec finds the        *)
(* leftmost position where '[Channel', a maximal run of one or more        *)
(* digits and ']' follow each other.                                       *)
(***************************************************************************)
ChannelPrefix == <<"[", "C", "h", "a", "n", "n", "e", "l">>

LiteralAt(s, i, lit) ==
    /\ i + Len(lit) - 1 <= Len(s)
    /\ \A k \in 1..Len(lit) : s[i + k - 1] = lit[k]

\* the length of the run of decimal digits of s that starts at position i
RECURSIVE DigitRun(_, _)
DigitRun(s, i) ==
    IF i <= Len(s) /\ s[i] \in DecDigits THEN 1 + DigitRun(s, i + 1) ELSE 0

MatchAt(s, i) ==
    /\ LiteralAt(s, i, ChannelPrefix)
    /\ LET j == i + Len(ChannelPrefix)
           n == DigitRun(s, j)
       IN  n >= 1 /\ j + n <= Len(s) /\ s[j + n] = "]"

\* the capture group match[1] of the leftmost match, or Null
ChannelRegexExec(s) ==
    LET starts == {i \in 1..Len(s) : MatchAt(s, i)}
    IN  IF starts = {} THEN Null
        ELSE LET i == CHOOSE x \in starts : \A y \in starts : x <= y
                 j == i + Len(ChannelPrefix)
             IN  Some(SubSeq(s, j, j + DigitRun(s, j) - 1))

deckFromGroup(g) ==
    LET match == ChannelRegexExec(g)
    IN  IF match # Null THEN Some(parseInt(match[1])) ELSE Null

(***************************************************************************)
(* XML nodes as @rgrove/parse-xml gives them: an element has a name, its   *)
(* text and its child nodes; white space between elements is a text node.  *)
(***************************************************************************)
Elem(name, text, children) ==
    [type |-> "element", name |-> name, text |-> text, children |-> children]

Leaf(name, text) == Elem(name, text, <<>>)

TextNode == [type |-> "text", name |-> "", text |-> <<"\n">>, children |-> <<>>]

isXmlElement(node) == node.type = "element"

RECURSIVE TrimEnd(_)
TrimEnd(s) ==
    IF s # <<>> /\ s[Len(s)] \in WhiteSpace THEN TrimEnd(SubSeq(s, 1, Len(s) - 1)) ELSE s

Trim(s) == TrimEnd(SkipWhile(s, WhiteSpace))

\* xmlToObject(xml): the child elements keyed by tag name, each with its
\* trimmed text and its children; the first element of a name is taken.
\* The argument is the sequence of child nodes (the code passes an element
\* or its children).
xmlToObject(children) ==
    LET elems == {i \in 1..Len(children) : isXmlElement(children[i])}
        names == {children[i].name : i \in elems}
        first(n) == CHOOSE i \in elems :
                        /\ children[i].name = n
                        /\ \A j \in elems : children[j].name = n => i <= j
    IN  [n \in names |-> [text |-> Trim(children[first(n)].text),
                          children |-> children[first(n)].children]]

\* children.flatMap(c => isXmlElement(c) ? [f(c)] : []): the indices kept
RECURSIVE ElementsOf(_)
ElementsOf(children) ==
    IF children = <<>> THEN <<>>
    ELSE (IF isXmlElement(Head(children)) THEN <<Head(children)>> ELSE <<>>)
           \o ElementsOf(Tail(children))

(***************************************************************************)
(* The parsers.  Reading a property of undefined throws a TypeError; the   *)
(* ...Throws operators say when that happens, the others give the value    *)
(* returned when it does not.                                              *)
(***************************************************************************)
parseMappingInfo(xml) ==
    LET childs == xmlToObject(xml.children)
        opt(t) == IF t \in DOMAIN childs THEN Some(childs[t].text) ELSE Null
    IN  [name |-> opt("name"), author |-> opt("author"),
         description |-> opt("description")]

BaseFields == {"group", "key", "status", "midino"}

parseBaseMappingThrows(xml) ==
    \E t \in BaseFields : t \notin DOMAIN xmlToObject(xml.children)

parseBaseMapping(xml) ==
    LET childs == xmlToObject(xml.children)
    IN  [group |-> childs["group"].text,
         key |-> childs["key"].text,
         status |-> parseInt(childs["status"].text),
         midino |-> parseInt(childs["midino"].text)]

parseControlMappingThrows(xml) ==
    \/ parseBaseMappingThrows(xml)
    \/ "options" \notin DOMAIN xmlToObject(xml.children)

parseControlMapping(xml) ==
    LET childs == xmlToObject(xml.children)
        base == parseBaseMapping(xml)
        opts == ElementsOf(childs["options"].children)
    IN  [group |-> base.group, key |-> base.key,
         status |-> base.status, midino |-> base.midino,
         options |-> [i \in 1..Len(opts) |-> opts[i].name]]

parseOutputMappingThrows(xml) == parseBaseMappingThrows(xml)

parseOutputMapping(xml) == parseBaseMapping(xml)

\* childs.controller ? xmlToObject(childs.controller.children) : {}
ControllerOf(xml) ==
    LET childs == xmlToObject(xml.root.children)
    IN  IF "controller" \in DOMAIN childs
        THEN xmlToObject(childs["controller"].children)
        ELSE [t \in {} |-> Null]

parseMidiMappingThrows(xml) ==
    LET controller == ControllerOf(xml)
    IN  \/ "controls" \notin DOMAIN controller
        \/ \E c \in Range(ElementsOf(controller["controls"].children)) :
               parseControlMappingThrows(c)
        \/ "outputs" \notin DOMAIN controller
        \/ \E c \in Range(ElementsOf(controller["outputs"].children)) :
               parseOutputMappingThrows(c)

parseMidiMapping(xml) ==
    LET childs == xmlToObject(xml.root.children)
        controller == ControllerOf(xml)
        cs == ElementsOf(controller["controls"].children)
        os == ElementsOf(controller["outputs"].children)
    IN  [info |-> IF "info" \in DOMAIN childs
                  THEN Some(parseMappingInfo(childs["info"])) ELSE Null,
         controls |-> [i \in 1..Len(cs) |-> parseControlMapping(cs[i])],
         outputs |-> [i \in 1..Len(os) |-> parseOutputMapping(os[i])]]

(***************************************************************************)
(* MixxxControllerMapping.fromMidi and toMidi.  A message is               *)
(* [status, data] with data = <<data1, data2>> (msg.data[0], msg.data[1]). *)
(***************************************************************************)
sPlay == <<"p", "l", "a", "y">>

\* number === byte: NaN equals nothing
StrictEquals(num, n) == ~num.nan /\ num.val = n

\* a slip: the latest binding of the pair is taken, not the earliest
FindControlLatest(controls, m) ==
    LET hits == {i \in 1..Len(controls) :
                   /\ StrictEquals(controls[i].status, m.status)
                   /\ StrictEquals(controls[i].midino, m.data[1])}
    IN  IF hits = {} THEN Null
        ELSE Some(controls[CHOOSE i \in hits : \A j \in hits : i >= j])

\* controls.find(c => c.status === msg.status && c.midino === msg.data[0])
FindControl(controls, m) ==
    LET hits == {i \in 1..Len(controls) :
                   /\ StrictEquals(controls[i].status, m.status)
                   /\ StrictEquals(controls[i].midino, m.data[1])}
    IN  IF hits = {} THEN Null
        ELSE Some(controls[CHOOSE i \in hits : \A j \in hits : i <= j])

\* control.group of an undefined control throws a TypeError
fromMidiThrows(self, m) == FindControl(self.midiMapping.controls, m) = Null

\* a slip: down is read from msg.data[0]
fromMidiDownFromData1(self, m) ==
    LET control == FindControl(self.midiMapping.controls, m)[1]
        down == m.data[1] > 0
        dk == deckFromGroup(control.group)
    IN  IF control.key = sPlay
        THEN <<[type |-> "press", control |-> [type |-> "play"],
                deck |-> dk, down |-> down]>>
        ELSE <<>>

\* a slip: the press is returned whatever the key is
fromMidiAnyKey(self, m) ==
    LET control == FindControl(self.midiMapping.controls, m)[1]
        down == m.data[2] > 0
        dk == deckFromGroup(control.group)
    IN  <<[type |-> "press", control |-> [type |-> "play"],
           deck |-> dk, down |-> down]>>

fromMidi(self, m) ==
    LET control == FindControl(self.midiMapping.controls, m)[1]
        down == m.data[2] > 0
        dk == deckFromGroup(control.group)
    IN  IF control.key = sPlay
        THEN <<[type |-> "press", control |-> [type |-> "play"],
                deck |-> dk, down |-> down]>>
        ELSE <<>>

toMidi(self, out) == <<>>

(***************************************************************************)
(* Inputs.                                                                 *)
(***************************************************************************)
MaxByte == 255   \* the bytes of a message are elements of a Uint8Array

sChannel1 == <<"[", "C", "h", "a", "n", "n", "e", "l", "1", "]">>
sMaster == <<"[", "M", "a", "s", "t", "e", "r", "]">>
sCue == <<"c", "u", "e">>
sIndicator == <<"p", "l", "a", "y", "_", "i", "n", "d">>

\* <name>text</name> when the text is given, nothing otherwise
LeafIf(name, opt) == IF opt = Null THEN <<>> ELSE <<Leaf(name, opt[1])>>

ControlNode(g, k, s, m, o) ==
    Elem("control", <<>>,
         LeafIf("group", g) \o LeafIf("key", k) \o LeafIf("status", s)
           \o LeafIf("midino", m)
           \o (IF o = Null THEN <<>> ELSE <<Elem("options", <<>>, o[1])>>))

OutputNode(g, k, s, m, mn, mx, on, off) ==
    Elem("output", <<>>,
         LeafIf("group", g) \o LeafIf("key", k) \o LeafIf("status", s)
           \o LeafIf("midino", m) \o LeafIf("minimum", mn)
           \o LeafIf("maximum", mx) \o LeafIf("on", on) \o LeafIf("off", off))

NoOptions == Some(<<>>)

\* bindings of status 0x90, note 0x20, for each group and key
PlainControls ==
    {ControlNode(Some(g), Some(k), Some(<<"1", "4", "4">>), Some(<<"3", "2">>),
                 NoOptions) :
       g \in {sChannel1, sMaster}, k \in {sPlay, sCue}}

OtherControl ==
    ControlNode(Some(sMaster), Some(sPlay), Some(<<"1", "2", "8">>),
                Some(<<"3", "3">>), NoOptions)

OddControls ==
    { \* hexadecimal, as Mixxx writes it, with an option and white space
      ControlNode(Some(sChannel1), Some(<<" ">> \o sPlay \o <<"\n">>),
                  Some(<<"0", "x", "9", "0">>), Some(<<"0", "x", "2", "0">>),
                  Some(<<TextNode, Leaf("normal", <<>>)>>)),
      \* status that is no number
      ControlNode(Some(sChannel1), Some(sPlay), Some(<<"a", "b", "c">>),
                  Some(<<"3", "2">>), NoOptions),
      \* status and midino beyond a byte
      ControlNode(Some(sChannel1), Some(sPlay), Some(<<"3", "0", "0">>),
                  Some(<<"3", "2">>), NoOptions),
      ControlNode(Some(sChannel1), Some(sPlay), Some(<<"1", "4", "4">>),
                  Some(<<"2", "0", "0">>), NoOptions),
      \* a child element missing
      ControlNode(Some(sChannel1), Some(sPlay), Null, Some(<<"3", "2">>), NoOptions),
      ControlNode(Null, Some(sPlay), Some(<<"1", "4", "4">>), Some(<<"3", "2">>),
                  NoOptions),
      ControlNode(Some(sChannel1), Some(sPlay), Some(<<"1", "4", "4">>),
                  Some(<<"3", "2">>), Null),
      TextNode }

OutputNodes ==
    { OutputNode(Some(sChannel1), Some(sIndicator), Some(<<"1", "4", "4">>),
                 Some(<<"3", "2">>), Some(<<"0">>), Some(<<"1", "0">>),
                 Some(<<"1", "2", "7">>), Some(<<"0">>)),
      OutputNode(Some(sChannel1), Some(sIndicator), Some(<<"1", "4", "4">>),
                 Some(<<"3", "3">>), Null, Null, Null, Null),
      OutputNode(Some(sChannel1), Some(sIndicator), Some(<<"1", "4", "4">>),
                 Null, Null, Null, Null, Null) }

Infos == {Null, Some(<<Leaf("name", <<"D", "J">>)>>)}

Document(info, controller) ==
    [root |-> Elem("MixxxControllerPreset", <<>>,
                   (IF info = Null THEN <<>> ELSE <<Elem("info", <<>>, info[1])>>)
                     \o (IF controller = Null THEN <<>>
                         ELSE <<TextNode, Elem("controller", <<>>, controller[1])>>))]

Controller(controls, outputs) ==
    (IF controls = Null THEN <<>> ELSE <<Elem("controls", <<>>, controls[1])>>)
      \o (IF outputs = Null THEN <<>> ELSE <<Elem("outputs", <<>>, outputs[1])>>)

\* the documents over the given control nodes and output nodes, and the
\* documents that lack <controller>, <controls> or <outputs>
DocumentsOver(infos, controlNodes, outputNodes) ==
    {Document(info, Some(Controller(Some(cs), Some(os)))) :
        info \in infos,
        cs \in SeqsUpTo(controlNodes, MaxControls),
        os \in SeqsUpTo(outputNodes, MaxOutputs)}
      \cup {Document(info, Null) : info \in infos}
      \cup {Document(Null, Some(Controller(Null, Some(<<>>)))),
            Document(Null, Some(Controller(Some(<<>>), Null)))}

Documents ==
    DocumentsOver(Infos, PlainControls \cup {OtherControl} \cup OddControls, OutputNodes)

\* the documents of the runs over every byte of a message
PlainDocuments ==
    DocumentsOver({Null},
                  {ControlNode(Some(sChannel1), Some(sPlay), Some(<<"1", "4", "4">>),
                               Some(<<"3", "2">>), NoOptions),
                   ControlNode(Some(sMaster), Some(sCue), Some(<<"1", "4", "4">>),
                               Some(<<"3", "2">>), NoOptions),
                   OtherControl},
                  {})

Scripts == {Null, Some("script")}

MessagesOver(data2s) ==
    {[status |-> s, data |-> <<d1, d2>>] : s \in {144, 128}, d1 \in {32, 33}, d2 \in data2s}

Messages == MessagesOver({0, 127})

ByteMessages == MessagesOver(0..MaxByte)

\* an output state: the values the application has, keyed by group and key
OutputStates ==
    {{}} \cup {{[group |-> sChannel1, key |-> sIndicator, value |-> v]} : v \in {5, 15}}

NoMessage == [status |-> 0, data |-> <<0, 0>>]

\* group strings: a core, with up to MaxAffix characters before and after it
AffixChars == {"[", "]", "1", "x"}

ChannelDigits == {"0", "1", "2"}

GroupCores ==
    {ChannelPrefix \o ds \o <<"]">> : ds \in SeqsUpTo(ChannelDigits, MaxDigits)}
      \cup {ChannelPrefix \o ds : ds \in SeqsUpTo(ChannelDigits, MaxDigits)}
      \cup { sMaster,
             <<>>,
             <<"C", "h", "a", "n", "n", "e", "l", "1", "]">>,
             <<"[", "c", "h", "a", "n", "n", "e", "l", "1", "]">>,
             <<"[", "C", "h", "a", "n", "n", "e", "l", " ", "1", "]">>,
             <<"[", "C", "h", "a", "n", "n", "e", "l", "1", "a", "]">>,
             <<"[", "E", "f", "f", "e", "c", "t", "R", "a", "c", "k", "1", "_",
               "E", "f", "f", "e", "c", "t", "U", "n", "i", "t", "1", "]">>,
             <<"[", "E", "q", "u", "a", "l", "i", "z", "e", "r", "R", "a", "c", "k",
               "1", "_">> \o sChannel1 \o <<"_", "E", "f", "f", "e", "c", "t", "1", "]">> }

GroupStrings ==
    {pre \o core \o post :
        pre \in SeqsUpTo(AffixChars, MaxAffix),
        core \in GroupCores,
        post \in SeqsUpTo(AffixChars, MaxAffix)}

(***************************************************************************)
(* The state machine.                                                      *)
(***************************************************************************)
InitOver(docs, msgs) ==
    /\ xmlMapping \in docs
    /\ jsMappingSrc \in Scripts
    /\ parsed = "pending"
    /\ mapping = Null
    /\ op = "none"
    /\ msg \in msgs
    /\ output = {}
    /\ outcome = "none"
    /\ result = <<>>
    /\ group = <<>>
    /\ deck = [done |-> TRUE, value |-> Null]

Init == InitOver(Documents, {NoMessage})

\* fromMidi as a function of the mapping and one message, over every byte:
\* the message to decode is an input, held in msg
InitBytes == InitOver(PlainDocuments, ByteMessages)

\* MixxxControllerMapping.parse
Parse ==
    /\ parsed = "pending"
    /\ IF parseMidiMappingThrows(xmlMapping)
       THEN parsed' = "TypeError" /\ mapping' = Null
       ELSE /\ parsed' = "returned"
            /\ mapping' = Some([midiMapping |-> parseMidiMapping(xmlMapping),
                                jsMappingSrc |-> jsMappingSrc])
    /\ UNCHANGED <<xmlMapping, jsMappingSrc, op, msg, output, outcome, result,
                   group, deck>>

\* a slip: the call takes the first control off the list (controls.shift())
FromMidiCallShifting(msgs) ==
    /\ mapping # Null
    /\ \E m \in msgs :
         /\ op' = "fromMidi"
         /\ msg' = m
         /\ IF fromMidiThrows(mapping[1], m)
            THEN outcome' = "TypeError" /\ result' = <<>>
            ELSE outcome' = "returned" /\ result' = fromMidi(mapping[1], m)
    /\ output' = {}
    /\ mapping' = Some([mapping[1] EXCEPT !.midiMapping.controls =
                          IF @ = <<>> THEN @ ELSE Tail(@)])
    /\ UNCHANGED <<xmlMapping, jsMappingSrc, parsed, group, deck>>

\* a call of fromMidi on the mapping parse returned
FromMidiCall(msgs) ==
    /\ mapping # Null
    /\ \E m \in msgs :
         /\ op' = "fromMidi"
         /\ msg' = m
         /\ IF fromMidiThrows(mapping[1], m)
            THEN outcome' = "TypeError" /\ result' = <<>>
            ELSE outcome' = "returned" /\ result' = fromMidi(mapping[1], m)
    /\ output' = {}
    /\ UNCHANGED <<xmlMapping, jsMappingSrc, parsed, mapping, group, deck>>

\* a call of toMidi on the mapping parse returned
ToMidiCall ==
    /\ mapping # Null
    /\ \E o \in OutputStates :
         /\ op' = "toMidi"
         /\ output' = o
         /\ outcome' = "returned"
         /\ result' = toMidi(mapping[1], o)
    /\ msg' = NoMessage
    /\ UNCHANGED <<xmlMapping, jsMappingSrc, parsed, mapping, group, deck>>

\* deckFromGroup(group), called on its own
DeckFromGroupCall ==
    /\ ~deck.done
    /\ deck' = [done |-> TRUE, value |-> deckFromGroup(group)]
    /\ UNCHANGED <<xmlMapping, jsMappingSrc, parsed, mapping, op, msg, output,
                   outcome, result, group>>

Next == Parse \/ FromMidiCall(Messages) \/ ToMidiCall

NextBytes == Parse \/ FromMidiCall({msg})

Spec == Init /\ [][Next]_vars

SpecBytes == InitBytes /\ [][NextBytes]_vars

\* deckFromGroup as a function of the group string
InitDeck ==
    /\ xmlMapping = Document(Null, Null)
    /\ jsMappingSrc = Null
    /\ parsed = "pending"
    /\ mapping = Null
    /\ op = "none"
    /\ msg = NoMessage
    /\ output = {}
    /\ outcome = "none"
    /\ result = <<>>
    /\ group \in GroupStrings
    /\ deck = [done |-> FALSE, value |-> Null]

NextDeck == DeckFromGroupCall

SpecDeck == InitDeck /\ [][NextDeck]_vars

(***************************************************************************)
(* What the claims speak of, said without the operators above.             *)
(***************************************************************************)
Controls == mapping[1].midiMapping.controls

Outputs == mapping[1].midiMapping.outputs

\* binding b has the (status, midino) of message m
SamePair(b, m) == b.status = Num(m.status) /\ b.midino = Num(m.data[1])

Matching(m) == {i \in 1..Len(Controls) : SamePair(Controls[i], m)}

Earliest(m) == CHOOSE i \in Matching(m) : \A j \in Matching(m) : i <= j

Decoded == op = "fromMidi" /\ mapping # Null

\* the mapping without the bindings after the earliest one that share its pair
RECURSIVE WithoutLater(_, _, _)
WithoutLater(controls, m, seen) ==
    IF controls = <<>> THEN <<>>
    ELSE IF SamePair(Head(controls), m)
         THEN (IF seen THEN <<>> ELSE <<Head(controls)>>)
                \o WithoutLater(Tail(controls), m, TRUE)
         ELSE <<Head(controls)>> \o WithoutLater(Tail(controls), m, seen)

Shadowless(self, m) ==
    [self EXCEPT !.midiMapping.controls = WithoutLater(@, m, FALSE)]

\* the control and output elements of the document
NodesUnder(tag) ==
    LET root == xmlToObject(xmlMapping.root.children)
        controller == IF "controller" \in DOMAIN root
                      THEN xmlToObject(root["controller"].children)
                      ELSE [x \in {} |-> Null]
    IN  IF tag \in DOMAIN controller
        THEN ElementsOf(controller[tag].children) ELSE <<>>

BindingElements == Range(NodesUnder("controls")) \cup Range(NodesUnder("outputs"))

Field(el, t) == xmlToObject(el.children)[t].text

HasField(el, t) == t \in DOMAIN xmlToObject(el.children)

\* decimal digits, or 0x and hexadecimal digits
IsNumeric(text) ==
    \/ text # <<>> /\ \A i \in 1..Len(text) : text[i] \in DecDigits
    \/ /\ Len(text) > 2
       /\ text[1] = "0" /\ text[2] = "x"
       /\ \A i \in 3..Len(text) : text[i] \in HexDigits

Malformed(el) ==
    \/ \E t \in BaseFields : ~HasField(el, t)
    \/ ~IsNumeric(Field(el, "status"))
    \/ ~IsNumeric(Field(el, "midino"))

\* C1: a message whose (status, data1) is the (status, midino) of no control
\* binding decodes to the empty sequence, and the call does not fail.
C1_UnmappedMessageDecodesToNothing ==
    (Decoded /\ Matching(msg) = {}) => (outcome = "returned" /\ result = <<>>)

\* C2: when two or more bindings share the (status, data1) of the message,
\* decoding gives what decoding against the definition without the later
\* bindings of that pair gives, whatever data2 is.
C2_EarliestBindingDecides ==
    (Decoded /\ Cardinality(Matching(msg)) >= 2) =>
        /\ outcome = "returned"
        /\ ~fromMidiThrows(Shadowless(mapping[1], msg), msg)
        /\ result = fromMidi(Shadowless(mapping[1], msg), msg)

C2_Witness ==
    /\ Decoded
    /\ Cardinality(Matching(msg)) >= 2
    /\ \E j \in Matching(msg) : Controls[j].key # Controls[Earliest(msg)].key
    /\ Controls[Earliest(msg)].key = sPlay
    /\ result # <<>>

\* C3: a message whose earliest matching binding has key 'play' decodes to
\* exactly one action: a press of play, on the deck of the binding's group,
\* with down = (data2 > 0).
C3_PlayDecodesToOnePress ==
    (Decoded /\ Matching(msg) # {} /\ Controls[Earliest(msg)].key = sPlay) =>
        /\ outcome = "returned"
        /\ result = <<[type |-> "press",
                       control |-> [type |-> "play"],
                       deck |-> deckFromGroup(Controls[Earliest(msg)].group),
                       down |-> (msg.data[2] > 0)]>>

C3_Witness ==
    /\ Decoded
    /\ Matching(msg) # {}
    /\ Controls[Earliest(msg)].key = sPlay
    /\ msg.data[2] = 0
    /\ Len(result) = 1
    /\ ~result[1].down
    /\ result[1].deck = Some(Num(1))

\* C4: deckFromGroup returns n for '[Channel' digits ']' with digits
\* denoting n, and null for every other string.
IsChannelGroup(g) ==
    /\ Len(g) > Len(ChannelPrefix) + 1
    /\ SubSeq(g, 1, Len(ChannelPrefix)) = ChannelPrefix
    /\ g[Len(g)] = "]"
    /\ \A i \in (Len(ChannelPrefix) + 1)..(Len(g) - 1) : g[i] \in DecDigits

C4_DeckOnlyOfChannelGroups ==
    deck.done =>
        IF IsChannelGroup(group)
        THEN deck.value = Some(Num(DigitsValue(
                 SubSeq(group, Len(ChannelPrefix) + 1, Len(group) - 1), 10, 0)))
        ELSE deck.value = Null

\* C5: for each output binding whose (group, key) has a value in the output
\* state, toMidi emits (status, midino, on) when the value is within
\* [minimum, maximum] and (status, midino, off) when it is not.
InBounds(el, v) ==
    /\ HasField(el, "minimum") => parseInt(Field(el, "minimum")).val <= v
    /\ HasField(el, "maximum") => v <= parseInt(Field(el, "maximum")).val

C5_OutputsAreEncoded ==
    (op = "toMidi" /\ mapping # Null) =>
        \A i \in 1..Len(Outputs) : \A o \in output :
            LET el == NodesUnder("outputs")[i]
                emitted(t) == [status |-> Outputs[i].status.val,
                               data |-> <<Outputs[i].midino.val,
                                          parseInt(Field(el, t)).val>>]
            IN  (o.group = Outputs[i].group /\ o.key = Outputs[i].key) =>
                    IF InBounds(el, o.value)
                    THEN HasField(el, "on") => emitted("on") \in Range(result)
                    ELSE HasField(el, "off") => emitted("off") \in Range(result)

\* C6: parsing a document whose root has no controller child succeeds, with
\* no controls and no outputs.
C6_NoControllerParsesToEmpty ==
    (parsed # "pending" /\ "controller" \notin DOMAIN xmlToObject(xmlMapping.root.children)) =>
        /\ parsed = "returned"
        /\ Controls = <<>>
        /\ Outputs = <<>>

\* C7: when a control or output element lacks group, key, status or midino,
\* or has a status or midino that is no number, parse fails and returns no
\* mapping.
C7_MalformedBindingFailsParse ==
    (parsed # "pending" /\ \E el \in BindingElements : Malformed(el)) =>
        (parsed # "returned" /\ mapping = Null)

\* C8: every binding of a mapping that parse returns has its status in
\* 0..255 and its midino in 0..127, if they are numbers at all.
C8_BindingsWithinByteRanges ==
    parsed = "returned" =>
        \A b \in Range(Controls) \cup Range(Outputs) :
            /\ b.status.nan \/ b.status.val \in 0..MaxByte
            /\ b.midino.nan \/ b.midino.val \in 0..(MaxByte \div 2)

\* C9: no call of fromMidi or toMidi changes the mapping parse returned: its
\* info, controls, outputs and script source stay what they were.
C9_CallsLeaveMappingAlone ==
    [][mapping # Null => mapping' = mapping]_vars

C9_Witness ==
    /\ op = "fromMidi"
    /\ outcome = "returned"
    /\ result # <<>>
    /\ mapping[1].midiMapping.info # Null
    /\ mapping[1].jsMappingSrc # Null
    /\ Len(Controls) = MaxControls
    /\ Len(Outputs) = MaxOutputs

\* C10: a message whose earliest matching binding has a key other than
\* 'play', decoded by a mapping without script source, gives the empty
\* sequence, and the call does not fail.
C10_UnrecognizedKeyDecodesToNothing ==
    (/\ Decoded
     /\ Matching(msg) # {}
     /\ Controls[Earliest(msg)].key # sPlay
     /\ mapping[1].jsMappingSrc = Null) =>
        (outcome = "returned" /\ result = <<>>)

C10_Witness ==
    /\ Decoded
    /\ Matching(msg) # {}
    /\ Controls[Earliest(msg)].key = sCue
    /\ mapping[1].jsMappingSrc = Null
    /\ outcome = "returned"
    /\ msg.data[2] = MaxByte

====
